---- MODULE Spec2Model ----
(***************************************************************************)
(* A model of cymod: the query-file parser (cymod/cyproc.py), the load     *)
(* orchestrator (cymod/load.py) and the tabular generator                  *)
(* (cymod/tabproc.py).                                                     *)
(*                                                                         *)
(* File text is a sequence of tokens.  A token is a string that stands for *)
(* one character ("{", "}", ";", "$", "/", " ", "\t", "\n", a letter, a     *)
(* digit), for one Cypher word ("MERGE", "RETURN", ...) or for one member  *)
(* of a JSON object (the text of a `"key": value` pair together with the   *)
(* comma that separates it).  The comment marker is two "/" in a row.      *)
(***************************************************************************)
EXTENDS Integers, Sequences, FiniteSets, TLC

VARIABLES
  text,            \* SpecParse: the content of the file on disk
  cf,              \* SpecParse: the CypherFile built from it
  load_job_queue,  \* GraphLoader._load_job_queue
  gen,             \* the generator returned by GraphLoader.iterqueries()
  yielded,         \* the queries the generator has yielded so far, in order
  result,          \* how the last next() on the generator ended
  cypher_files,    \* SpecOrder: GraphLoader.cypher_files, the stack of files
  loaded,          \* SpecOrder: the queries ServerGraphLoader has run, in order
  previous,        \* the last traversal of the job queue that ran to its end
  ttp,             \* SpecTab: the TransTableProcessor
  query_iter,      \* SpecTab: the generator returned by ttp.iterqueries()
  ttp_yielded,     \* SpecTab: the queries it has yielded so far, in order
  cypher_params,   \* SpecBase: a CypherParams object
  query_source,    \* SpecBase: a CypherQuerySource object
  raised,          \* SpecBase: the last call: its operation and arguments, the
                   \* objects before it and the exception it raised, "" if none
  resolutions,        \* the queries the generator has put through the resolution
                   \* against a job's global parameters: each as it was before,
                   \* as it is after, and the exception that was raised
  reads,           \* SpecParse: how many times the file has been read
  parsed_query     \* SpecSubst: a call of _parse_query_params

tab_vars == <<ttp, query_iter, ttp_yielded>>
base_vars == <<cypher_params, query_source, raised>>

vars ==
  <<text, cf, load_job_queue, gen, yielded, result, cypher_files, loaded, previous,
    tab_vars, base_vars, resolutions, reads, parsed_query>>

(***************************************************************************)
(* Python values.  A JSON / Python scalar is a record with its kind; a     *)
(* dict-or-None is a record that says which of the two it is.              *)
(***************************************************************************)
IntV(i) == [k |-> "int", n |-> i, s |-> ""]
StrV(str) == [k |-> "str", n |-> 0, s |-> str]
BoolV(b) == [k |-> "bool", n |-> IF b THEN 1 ELSE 0, s |-> ""]
NoneV == [k |-> "none", n |-> 0, s |-> ""]

\* Python truth of a scalar: None, 0, False and "" are false.
Truthy(v) ==
  CASE v.k = "none" -> FALSE
    [] v.k = "str" -> v.s # ""
    [] OTHER -> v.n # 0

NoDict == [isNone |-> TRUE, d |-> << >>]
Dict(f) == [isNone |-> FALSE, d |-> f]

SetMax(S) == CHOOSE m \in S : \A o \in S : o <= m
SetMin(S) == CHOOSE m \in S : \A o \in S : m <= o

(***************************************************************************)
(* Strings as token sequences: str.split, str.join, str.lstrip.            *)
(***************************************************************************)
RECURSIVE Split(_, _)
Split(str, sep) ==
  LET P == {i \in 1..Len(str) : str[i] = sep}
  IN IF P = {} THEN <<str>>
     ELSE <<SubSeq(str, 1, SetMin(P) - 1)>>
            \o Split(SubSeq(str, SetMin(P) + 1, Len(str)), sep)

RECURSIVE Join(_, _)
Join(pieces, sep) ==
  IF pieces = << >> THEN << >>
  ELSE IF Len(pieces) = 1 THEN pieces[1]
  ELSE pieces[1] \o <<sep>> \o Join(Tail(pieces), sep)

\* The characters Python's \s and str.lstrip() treat as whitespace.
IsSpace(t) == t \in {" ", "\t", "\n"}

lstrip(str) ==
  LET N == {i \in 1..Len(str) : ~IsSpace(str[i])}
  IN IF N = {} THEN << >> ELSE SubSeq(str, SetMin(N), Len(str))

rstrip(str) ==
  LET N == {i \in 1..Len(str) : ~IsSpace(str[i])}
  IN IF N = {} THEN << >> ELSE SubSeq(str, 1, SetMax(N))

RECURSIVE Concat(_)
Concat(str) == IF str = << >> THEN "" ELSE Head(str) \o Concat(Tail(str))

\* [op(x) for x in seq], as a list.
RECURSIVE Map(_, _)
Map(Op(_), seq) ==
  IF seq = << >> THEN << >> ELSE <<Op(Head(seq))>> \o Map(Op, Tail(seq))

(***************************************************************************)
(* json.loads of the candidate parameter block.  The block decodes when it *)
(* is, between optional whitespace, "{" members "}" and every member is a  *)
(* well-formed pair; anything else raises ValueError.  A later member with *)
(* the same key replaces an earlier one.                                   *)
(***************************************************************************)
JsonMembers ==
  { "\"priority\": 0", "\"priority\": 1", "\"priority\": 2",
    "\"priority\": \"2\"", "\"x\": \"Sue\"", "\"x\": 0", "\"y\": 7" }

JsonKey(t) ==
  CASE t \in {"\"priority\": 0", "\"priority\": 1", "\"priority\": 2",
              "\"priority\": \"2\""} -> "priority"
    [] t \in {"\"x\": \"Sue\"", "\"x\": 0"} -> "x"
    [] t = "\"y\": 7" -> "y"

JsonVal(t) ==
  CASE t = "\"priority\": 0" -> IntV(0)
    [] t = "\"priority\": 1" -> IntV(1)
    [] t = "\"priority\": 2" -> IntV(2)
    [] t = "\"priority\": \"2\"" -> StrV("2")
    [] t = "\"x\": \"Sue\"" -> StrV("Sue")
    [] t = "\"x\": 0" -> IntV(0)
    [] t = "\"y\": 7" -> IntV(7)

json_loads(str) ==
  LET Members(inner) == SelectSeq(inner, LAMBDA t : ~IsSpace(t))
      Object(members) ==
        [key \in {JsonKey(members[i]) : i \in 1..Len(members)} |->
           JsonVal(members[SetMax({i \in 1..Len(members) : JsonKey(members[i]) = key})])]
      Decode(body, members) ==
        IF /\ Len(body) >= 2
           /\ body[1] = "{"
           /\ body[Len(body)] = "}"
           /\ \A i \in 1..Len(members) : members[i] \in JsonMembers
        THEN [error |-> "", obj |-> Object(members)]
        ELSE [error |-> "ValueError", obj |-> << >>]
      Strip(body) == Decode(body, Members(SubSeq(body, 2, Len(body) - 1)))
  IN Strip(rstrip(lstrip(str)))

(***************************************************************************)
(* CypherFile (cymod/cyproc.py).                                           *)
(***************************************************************************)
query_start_clauses == <<"START", "MATCH", "MERGE", "CREATE">>

\* l.find('//') + 1: where the first comment marker of a line begins, 0 when
\* the line has none.
MarkerAt(l) ==
  LET P == {i \in 1..(Len(l) - 1) : l[i] = "/" /\ l[i + 1] = "/"}
  IN IF P = {} THEN 0 ELSE SetMin(P)

\* The preprocessing without its filter of the lines that begin with "//".
_remove_comments_and_newlines_unfiltered(dat) ==
  LET cut(l) == IF MarkerAt(l) = 0 THEN l ELSE SubSeq(l, 1, MarkerAt(l) - 1)
  IN Join(Map(cut, Split(dat, "\n")), " ")

_remove_comments_and_newlines(dat) ==
  LET cut(l) == IF MarkerAt(l) = 0 THEN l ELSE SubSeq(l, 1, MarkerAt(l) - 1)
      kept(dat_list) == SelectSeq(dat_list, LAMBDA l : MarkerAt(l) # 1)
  IN Join(Map(cut, kept(Split(dat, "\n"))), " ")

\* re.compile(r'\s*\{[\s*\S*]*\}\s*' + clause).match(dat): the index of the
\* clause that ends the (greedy) match, 0 when the pattern does not match.
ClauseMatch(dat, clause) ==
  LET Ends(open) ==
        {c \in 1..Len(dat) :
           /\ dat[c] = clause
           /\ \E j \in (open + 1)..(c - 1) :
                 /\ dat[j] = "}"
                 /\ \A m \in (j + 1)..(c - 1) : IsSpace(dat[m])}
      Last(C) == IF C = {} THEN 0 ELSE SetMax(C)
      From(N) == IF N = {} THEN 0
                 ELSE IF dat[SetMin(N)] # "{" THEN 0
                 ELSE Last(Ends(SetMin(N)))
  IN From({i \in 1..Len(dat) : ~IsSpace(dat[i])})

\* The tuple (param_dict, queries) and what the block did to `priority`:
\* the value it gets and whether the block gave it.
_extract_parameters(dat) ==
  LET Decode(js, queries) ==
        IF js.error # ""
        THEN [error |-> js.error, param_dict |-> NoDict, queries |-> << >>,
              priority |-> IntV(0), explicit |-> FALSE]
        ELSE [error |-> "",
              param_dict |-> Dict([key \in DOMAIN js.obj \ {"priority"} |-> js.obj[key]]),
              queries |-> queries,
              priority |-> IF "priority" \in DOMAIN js.obj
                           THEN js.obj["priority"] ELSE IntV(0),
              explicit |-> "priority" \in DOMAIN js.obj]
      Cut(params_end) ==
        Decode(json_loads(SubSeq(dat, 1, params_end)),
               SubSeq(dat, params_end + 1, Len(dat)))
      Choose(at) ==
        IF \A i \in 1..Len(at) : at[i] = 0
        THEN [error |-> "", param_dict |-> NoDict, queries |-> dat,
              priority |-> IntV(0), explicit |-> FALSE]
        ELSE Cut(at[SetMax({i \in 1..Len(at) : at[i] # 0})] - 1)
      match(clause) == ClauseMatch(dat, clause)
  IN Choose(Map(match, query_start_clauses))

\* The character class [a-zA-Z1-9] of the placeholder pattern.
IsNameChar(t) ==
  t \in {"x", "y", "1", "priority", "START", "MATCH", "MERGE", "CREATE", "RETURN"}

\* The name the pattern (\$)([a-zA-Z1-9]*) captures for the "$" at index i.
ParamName(statement, i) ==
  LET stop == {e \in (i + 1)..(Len(statement) + 1) :
                  e = Len(statement) + 1 \/ ~IsNameChar(statement[e])}
  IN Concat(SubSeq(statement, i + 1, SetMin(stop) - 1))

_match_params_to_statement(statement, all_params) ==
  LET found == {i \in 1..Len(statement) : statement[i] = "$"}
      names == {ParamName(statement, i) : i \in found}
  IN IF found = {} THEN [error |-> "", params |-> NoDict]
     ELSE IF all_params.isNone
     THEN [error |-> "AttributeError", params |-> NoDict]
     ELSE [error |-> "",
           params |-> Dict([name \in names |->
                              IF name \in DOMAIN all_params.d
                              THEN all_params.d[name] ELSE NoneV])]

CypherQuerySource(ref, ref_type, index) ==
  [ref |-> ref, ref_type |-> ref_type, index |-> index]

CypherQuery(statement, params, source) ==
  [statement |-> statement, params |-> params, source |-> source]

_parse_queries(filename, contents) ==
  LET terminate(q) == lstrip(q) \o <<";">>
      Build(dat, query_string_list, matched) ==
        IF \E i \in 1..Len(matched) : matched[i].error # ""
        THEN [error |-> matched[SetMin({i \in 1..Len(matched) :
                                          matched[i].error # ""})].error,
              priority |-> IntV(0), explicit |-> FALSE, query_list |-> << >>]
        ELSE [error |-> "", priority |-> dat.priority, explicit |-> dat.explicit,
              query_list |-> [i \in 1..Len(matched) |->
                 CypherQuery(query_string_list[i], matched[i].params,
                             CypherQuerySource(filename, "cypher", i - 1))]]
      Match(dat, query_string_list) ==
        LET match(statement) == _match_params_to_statement(statement, dat.param_dict)
        IN Build(dat, query_string_list, Map(match, query_string_list))
      Statements(dat) ==
        IF dat.error # ""
        THEN [error |-> dat.error, priority |-> IntV(0), explicit |-> FALSE,
              query_list |-> << >>]
        ELSE Match(dat, Map(terminate,
                            SelectSeq(Split(dat.queries, ";"),
                                      LAMBDA q : \E i \in 1..Len(q) : q[i] # " ")))
  IN Statements(_extract_parameters(_remove_comments_and_newlines(contents)))

\* CypherFile(filename): the object, or the exception its constructor raises.
CypherFile(filename, contents) ==
  LET Object(parsed) ==
        [error |-> parsed.error, filename |-> filename,
         priority |-> parsed.priority, explicit |-> parsed.explicit,
         queries |-> parsed.query_list]
  IN Object(_parse_queries(filename, contents))

(***************************************************************************)
(* File ordering (cymod/load.py).  CypherFileFinder.iterfiles is not part  *)
(* of the sources at hand; priority_sorted=True is taken to hand out the   *)
(* files the way the loader's own code orders and consumes them: the list  *)
(* of _get_sorted_cypher_files, popped from its end.                       *)
(***************************************************************************)
\* get_priority_number as its docstring describes it: a file that was given
\* no priority sorts with max_priority.
get_priority_number_unset(cypher_file, max_priority) ==
  IF cypher_file.explicit /\ cypher_file.priority.k \in {"int", "bool"}
  THEN cypher_file.priority.n ELSE max_priority

get_priority_number(cypher_file, max_priority) ==
  IF cypher_file.priority.k \in {"int", "bool"}
  THEN cypher_file.priority.n ELSE max_priority

\* while files: f = files.pop() -- the order in which the stack is emptied.
RECURSIVE PopOrder(_)
PopOrder(files) ==
  IF files = << >> THEN << >>
  ELSE <<files[Len(files)]>> \o PopOrder(SubSeq(files, 1, Len(files) - 1))

\* sorted(files, key=..., reverse=True): descending keys, equal keys in their
\* original order.
RECURSIVE SortedReverse(_, _)
SortedReverse(files, n) ==
  LET Place(init, f, before) ==
        IF before = {} THEN Append(init, f)
        ELSE SubSeq(init, 1, SetMin(before) - 1) \o <<f>>
               \o SubSeq(init, SetMin(before), Len(init))
      Insert(init, f) ==
        Place(init, f, {i \in 1..Len(init) :
                          get_priority_number(init[i], n) < get_priority_number(f, n)})
  IN IF files = << >> THEN << >>
     ELSE Insert(SortedReverse(SubSeq(files, 1, Len(files) - 1), n), files[Len(files)])

\* sorted(files, key=...) without reverse=True: ascending keys, equal keys in
\* their original order.
_get_sorted_cypher_files_ascending(unsorted_cypher_files) ==
  PopOrder(SortedReverse(PopOrder(unsorted_cypher_files), Len(unsorted_cypher_files)))

_get_sorted_cypher_files(unsorted_cypher_files) ==
  SortedReverse(unsorted_cypher_files, Len(unsorted_cypher_files))

\* CypherFileFinder.get_cypher_files: the files found under root_dir, in the
\* order the directory walk meets them.  A file is named by its root
\* directory and its position in the walk.
RECURSIVE get_cypher_files(_, _)
get_cypher_files(root_dir, fnames) ==
  IF fnames = << >> THEN << >>
  ELSE Append(get_cypher_files(root_dir, SubSeq(fnames, 1, Len(fnames) - 1)),
              CypherFile(<<root_dir, Len(fnames)>>, fnames[Len(fnames)]))

\* The files of the listing in load order, or the exception the first
\* unparsable file raises.
iterfiles(root_dir, fnames) ==
  LET Order(files) ==
        IF \E i \in 1..Len(files) : files[i].error # ""
        THEN [error |-> files[SetMin({i \in 1..Len(files) : files[i].error # ""})].error,
              files |-> << >>]
        ELSE [error |-> "", files |-> PopOrder(_get_sorted_cypher_files(files))]
  IN Order(get_cypher_files(root_dir, fnames))

(***************************************************************************)
(* GraphLoader (cymod/load.py).                                            *)
(***************************************************************************)
\* The three kinds of load job: a CypherFileFinder, a dict of a finder and
\* global parameters, and anything else (a tabular source).
FinderJob(root_dir, fnames) ==
  [kind |-> "finder", root_dir |-> root_dir, fnames |-> fnames,
   global_params |-> << >>, table |-> << >>]

DictJob(root_dir, fnames, global_params) ==
  [kind |-> "dict", root_dir |-> root_dir, fnames |-> fnames,
   global_params |-> global_params, table |-> << >>]

TabularJob(root_dir, table) ==
  [kind |-> "tabular", root_dir |-> root_dir, fnames |-> << >>,
   global_params |-> << >>, table |-> table]

\* `if global_params:` -- None and the empty dict are both false.
DictTruthy(dict) == ~dict.isNone /\ DOMAIN dict.d # {}

\* The keys of a statement's params in the order in which the dict hands
\* them out: the order in which the placeholders were first put in.
KeysInOrder(statement) ==
  LET found == {i \in 1..Len(statement) : statement[i] = "$"}
      first == {i \in found : \A o \in found :
                  ParamName(statement, o) = ParamName(statement, i) => i <= o}
  IN [n \in 1..Cardinality(first) |->
        ParamName(statement, CHOOSE i \in first : Cardinality({o \in first : o <= i}) = n)]

\* The dict branch's work on one query: the query before it, the query after
\* it and the exception it raises, "" if none.  The keys whose value is false
\* are taken in turn; the first that the global parameters do not have ends
\* the work.
ResolveQuery(query, global_params) ==
  LET Fill(unspecified_native_params, missing) ==
        LET filled == {unspecified_native_params[i] :
                         i \in {i \in 1..Len(unspecified_native_params) :
                                  missing = {} \/ i < SetMin(missing)}}
        IN [error |-> IF missing = {} THEN "" ELSE "KeyError",
            before |-> query,
            after |-> [query EXCEPT !.params.d =
                         [key \in DOMAIN query.params.d |->
                            IF key \in filled THEN global_params[key]
                            ELSE query.params.d[key]]]]
      Try(unspecified_native_params) ==
        Fill(unspecified_native_params,
             {i \in 1..Len(unspecified_native_params) :
                unspecified_native_params[i] \notin DOMAIN global_params})
  IN IF query.params.isNone
     THEN [error |-> "TypeError", before |-> query, after |-> query]
     ELSE Try(SelectSeq(KeysInOrder(query.statement),
                        LAMBDA key : ~Truthy(query.params.d[key])))

RECURSIVE AllQueries(_)
AllQueries(files) ==
  IF files = << >> THEN << >> ELSE Head(files).queries \o AllQueries(Tail(files))

\* The dict branch's work on all files of a job, in load order: the first
\* exception, "" if none, and the queries worked on up to it.
ResolveJob(files, global_params) ==
  LET resolve(query) == ResolveQuery(query, global_params)
      First(done, failed) ==
        IF failed = {} THEN [error |-> "", done |-> done]
        ELSE [error |-> done[SetMin(failed)].error,
              done |-> SubSeq(done, 1, SetMin(failed))]
      Upto(done) == First(done, {i \in 1..Len(done) : done[i].error # ""})
  IN Upto(Map(resolve, AllQueries(files)))

Raise(error) ==
  [outcome |-> error, j |-> 0, f |-> 0, q |-> 0, query |-> << >>, done |-> << >>]

\* The body of iterqueries from position (job j, file f, query q) up to its
\* next yield, its end (after the last job, j = Len(queue) + 1) or the
\* exception it raises.
RECURSIVE Resume(_, _, _, _)
Resume(queue, j, f, q) ==
  LET Finder(it) ==
        IF it.error # "" THEN Raise(it.error)
        ELSE IF f > Len(it.files) THEN Resume(queue, j + 1, 1, 1)
        ELSE IF q > Len(it.files[f].queries) THEN Resume(queue, j, f + 1, 1)
        ELSE [outcome |-> "yield", j |-> j, f |-> f, q |-> q + 1,
              query |-> <<it.files[f].queries[q]>>, done |-> << >>]
      After(done, rest) == [rest EXCEPT !.done = done \o @]
      Resolved(job) ==
        IF job.error # "" THEN After(job.done, Raise(job.error))
        ELSE After(job.done, Resume(queue, j + 1, 1, 1))
      Params(it, global_params) ==
        IF it.error # "" THEN Raise(it.error)
        ELSE Resolved(ResolveJob(it.files, global_params))
  IN IF j > Len(queue)
     THEN [outcome |-> "StopIteration", j |-> j, f |-> 1, q |-> 1, query |-> << >>,
           done |-> << >>]
     ELSE IF queue[j].kind = "finder"
     THEN Finder(iterfiles(queue[j].root_dir, queue[j].fnames))
     ELSE IF queue[j].kind = "dict"
     THEN Params(iterfiles(queue[j].root_dir, queue[j].fnames), queue[j].global_params)
     ELSE Resume(queue, j + 1, 1, 1)

(***************************************************************************)
(* CypherQuerySource and CypherParams (cymod/cybase.py).  A dict key is    *)
(* given by its type and its text; `str` and `unicode` are the two string  *)
(* types of Python 2, whose generators have the next() method that the     *)
(* package's tests call.                                                   *)
(***************************************************************************)
Key(type, name) == [k |-> type, name |-> name]

\* The ref_type setter that stores the value before it looks at it.
ref_type_setter_unchecked(self, val) ==
  IF val \notin {"cypher", "tabular"}
  THEN [error |-> "ValueError", self |-> [self EXCEPT !.ref_type = val]]
  ELSE [error |-> "", self |-> [self EXCEPT !.ref_type = val]]

\* CypherQuerySource.ref_type = val: the exception and the object afterwards.
ref_type_setter(self, val) ==
  IF val \notin {"cypher", "tabular"}
  THEN [error |-> "ValueError", self |-> self]
  ELSE [error |-> "", self |-> [self EXCEPT !.ref_type = val]]

\* isinstance(k, six.string_types)
all_keys_are_strings_p(test_dict) ==
  \A key \in DOMAIN test_dict : key.k \in {"str", "unicode"}

\* json.load of the named file: the keys of a decoded object are unicode
\* strings; a file that is not there cannot be opened.
read_json_params(fname) ==
  IF fname = "test_params.json"
  THEN [error |-> "", data |-> [key \in {Key("unicode", "param1")} |-> IntV(10)]]
  ELSE [error |-> "IOError", data |-> << >>]

\* CypherParams.data = val: the exception and the dict that is stored.
data_setter(val) ==
  LET Check(read) ==
        IF read.error # "" THEN read
        ELSE IF all_keys_are_strings_p(read.data) THEN read
        ELSE [error |-> "TypeError", data |-> << >>]
  IN Check(IF val.isdict THEN [error |-> "", data |-> val.d]
           ELSE read_json_params(val.fname))

\* CypherParams.__setitem__: the exception and the dict afterwards.
__setitem__(data, key, val) ==
  IF key.k = "str"
  THEN [error |-> "",
        data |-> [other \in DOMAIN data \cup {key} |->
                    IF other = key THEN val ELSE data[other]]]
  ELSE [error |-> "TypeError", data |-> data]

(***************************************************************************)
(* TransTableProcessor (cymod/tabproc.py).  A statement is a sequence of   *)
(* tokens again: "(", ")", "{", "}", the quotation mark, ":", " " and ", " *)
(* are tokens of their own, and so is each word ("MERGE", "start:", a      *)
(* label, a column name, a number's digits).  A cell of the table is an    *)
(* integer, a boolean or a string, the string being its tokens.            *)
(***************************************************************************)
IntCell(i) == [k |-> "int", n |-> i, s |-> << >>]
StrCell(tokens) == [k |-> "str", n |-> 0, s |-> tokens]
BoolCell(b) == [k |-> "bool", n |-> IF b THEN 1 ELSE 0, s |-> << >>]

\* str(val), as str.format and _conditions_str apply it.
py_str(val) ==
  CASE val.k = "str" -> val.s
    [] val.k = "bool" -> <<IF val.n = 1 THEN "True" ELSE "False">>
    [] OTHER -> <<ToString(val.n)>>

\* The default labels of CustomLabels().
CustomLabels == [state |-> "State", transition |-> "Transition", condition |-> "Condition"]

\* The names that occur as keys, in lexicographic order.
KeyOrder == <<"cond", "cond1", "cond2", "end", "id", "start", "version">>

\* sorted(dict.items()): the keys in ascending order.
SortedKeys(keys) == SelectSeq(KeyOrder, LAMBDA key : key \in keys)

\* The character class [a-zA-Z_\d] of the key pattern.
IsWord(t) ==
  t \in {"cond", "cond1", "cond2", "end", "id", "start", "version",
         "low", "high", "x", "s", "state1", "state2", "true", "True",
         "1", "2", "3"}

\* json.dumps of a value: a string in quotation marks, its own quotation
\* marks escaped; a boolean as true / false; a number by its digits.
json_dumps(val) ==
  LET escape(t) == IF t = "\"" THEN "\\\"" ELSE t
  IN CASE val.k = "str" -> <<"\"">> \o Map(escape, val.s) \o <<"\"">>
       [] val.k = "bool" -> <<IF val.n = 1 THEN "true" ELSE "false">>
       [] OTHER -> <<ToString(val.n)>>

\* The tokens of str whose index is not in drop.
Without(str, drop) ==
  LET keep == {i \in 1..Len(str) : i \notin drop}
  IN [k \in 1..Cardinality(keep) |->
        str[CHOOSE i \in keep : Cardinality({j \in keep : j <= i}) = k]]

_dict_to_cypher_properties(dict) ==
  LET item(key) == <<"\"", key, "\"", ":", " ">> \o json_dumps(dict[key])
      Unquote(string) ==
        Without(string,
                UNION {{i, i + 2} : i \in {i \in 1..(Len(string) - 3) :
                          /\ string[i] = "\"" /\ IsWord(string[i + 1])
                          /\ string[i + 2] = "\"" /\ string[i + 3] = ":"}})
      Tighten(string) ==
        Without(string,
                {i + 1 : i \in {i \in 1..(Len(string) - 2) :
                          /\ string[i] = ":" /\ string[i + 1] = " "
                          /\ string[i + 2] \in {"\"", "'", "1", "2", "3"}}})
      Inner(string) == SubSeq(string, 2, Len(string) - 1)
  IN Inner(Tighten(Unquote(
       <<"{">> \o Join(Map(item, SortedKeys(DOMAIN dict)), ", ") \o <<"}">>)))

\* node_re = \((start:|end:|trans:|cond:)[^(]*\) tried at index p: the index
\* of the ")" that ends the match, 0 when there is no match at p.
NodeEnd(query_str, p) ==
  LET Close(stop) ==
        IF {e \in (p + 2)..(stop - 1) : query_str[e] = ")"} = {} THEN 0
        ELSE SetMax({e \in (p + 2)..(stop - 1) : query_str[e] = ")"})
  IN IF /\ p < Len(query_str)
        /\ query_str[p] = "("
        /\ query_str[p + 1] \in {"start:", "end:", "trans:", "cond:"}
     THEN Close(SetMin({e \in (p + 2)..(Len(query_str) + 1) :
                          e = Len(query_str) + 1 \/ query_str[e] = "("}))
     ELSE 0

\* node_re.finditer(query_str) from index p on: the matched node strings.
RECURSIVE finditer(_, _)
finditer(query_str, p) ==
  LET starts == {s \in p..Len(query_str) : NodeEnd(query_str, s) # 0}
      match(s) == <<SubSeq(query_str, s, NodeEnd(query_str, s))>>
                    \o finditer(query_str, NodeEnd(query_str, s) + 1)
  IN IF starts = {} THEN << >> ELSE match(SetMin(starts))

\* str.replace(old, new): every occurrence, left to right.
RECURSIVE replace(_, _, _)
replace(string, old, new) ==
  LET found == {i \in 1..(Len(string) - Len(old) + 1) :
                  SubSeq(string, i, i + Len(old) - 1) = old}
      at(i) == SubSeq(string, 1, i - 1) \o new
                 \o replace(SubSeq(string, i + Len(old), Len(string)), old, new)
  IN IF found = {} THEN string ELSE at(SetMin(found))

\* The node string with the parameters put in: before the last "}" of the
\* match of props_re = \{.*\}, or in a new block before the closing ")".
NewNode(node_str, param_str) ==
  LET At(open, close) ==
        IF open # {} /\ {c \in close : c > SetMin(open)} # {}
        THEN SubSeq(node_str, 1, SetMax(close) - 1) \o <<", ">> \o param_str
               \o SubSeq(node_str, SetMax(close), Len(node_str))
        ELSE SubSeq(node_str, 1, Len(node_str) - 1) \o <<" ", "{">> \o param_str
               \o <<"}", node_str[Len(node_str)]>>
  IN At({i \in 1..Len(node_str) : node_str[i] = "{"},
        {i \in 1..Len(node_str) : node_str[i] = "}"})

_add_global_params_to_query_string(query_str, global_params) ==
  LET RECURSIVE Loop(_, _, _)
      Loop(out_str, nodes, param_str) ==
        IF nodes = << >> THEN out_str
        ELSE Loop(replace(out_str, Head(nodes), NewNode(Head(nodes), param_str)),
                  Tail(nodes), param_str)
  IN Loop(query_str, finditer(query_str, 1), _dict_to_cypher_properties(global_params))

\* The part in curly braces with the Condition node's properties: the row
\* without its two state columns, in the order of the table's columns.
_conditions_str(row, start_state_col, end_state_col) ==
  LET value(val) == CASE val.k = "str" -> <<"\"">> \o val.s \o <<"\"">>
                      [] val.k = "bool" -> <<IF val.n = 1 THEN "true" ELSE "false">>
                      [] OTHER -> py_str(val)
      item(i) == <<i, ":">> \o value(row.cell[i])
  IN <<"{">>
       \o Join(Map(item, SelectSeq(row.columns,
                                   LAMBDA i : i \notin {start_state_col, end_state_col})),
               ", ")
       \o <<"}">>

_row_to_query_statement_string(self, row) ==
  LET start_node ==
        <<"MERGE", " ", "(", "start:", self.labels.state, " ", "{", "code:", "\"">>
          \o py_str(row.cell[self.start_state_col]) \o <<"\"", "}", ")">>
      end_node ==
        <<"MERGE", " ", "(", "end:", self.labels.state, " ", "{", "code:", "\"">>
          \o py_str(row.cell[self.end_state_col]) \o <<"\"", "}", ")">>
      transition ==
        <<"MERGE", " ", "(", "start", ")", "<-[:SOURCE]-", "(", "trans:",
          self.labels.transition, ")", "-[:TARGET]->", "(", "end", ")">>
      condition ==
        <<"MERGE", " ", "(", "cond:", self.labels.condition, " ">>
          \o _conditions_str(row, self.start_state_col, self.end_state_col)
          \o <<")", "-[:CAUSES]->", "(", "trans", ")">>
      Globals(query_str) ==
        IF DictTruthy(self.global_params)
        THEN _add_global_params_to_query_string(query_str, self.global_params.d)
        ELSE query_str
  IN Globals(start_node \o <<" ">> \o end_node \o <<" ">> \o transition \o <<" ">>
               \o condition \o <<";">>)

\* _row_to_cypher_query that numbers every row 0.
_row_to_cypher_query_unindexed(self, row_index, row) ==
  CypherQuery(_row_to_query_statement_string(self, row), NoDict,
              CypherQuerySource(self.df, "tabular", 0))

_row_to_cypher_query(self, row_index, row) ==
  CypherQuery(_row_to_query_statement_string(self, row), NoDict,
              CypherQuerySource(self.df, "tabular", row_index))

(***************************************************************************)
(* GraphLoader._parse_query_params (cymod/load.py).  The query is a        *)
(* sequence of tokens, one per character or word; params is the dict as    *)
(* its iteration hands it out: a sequence of keys with their values, both  *)
(* given by the tokens of their str().                                     *)
(***************************************************************************)
RECURSIVE _parse_query_params(_, _)
_parse_query_params(query, params) ==
  IF params = << >> THEN query
  ELSE _parse_query_params(
         replace(query, <<"$">> \o Head(params).k, <<"\"">> \o Head(params).v \o <<"\"">>),
         Tail(params))

(***************************************************************************)
(* Inputs.                                                                 *)
(***************************************************************************)
MaxJobs == 2
MaxJobFiles == 2
MaxOrderFiles == 3
MaxRows == 1
MaxFrameRows == 2
MaxTraversals == 2
MaxDictKeys == 2
MaxReads == 3

\* Files for the parser: an optional comment line, an optional leading block
\* and a body of statements.
Prefixes ==
  { << >>,
    <<"/", "/", "x", "\n">>,
    <<"/", "/", "/", "\n", "x", " ", "/", "/", "/", "y", "\n">>,
    <<"x", "/", "\n", "/", "y", ";", "\n">> }

Headers ==
  { << >>,
    <<"{", " ", "\"priority\": 2", " ", "}", "\n">>,
    <<"{", "\"x\": \"Sue\"", "}", "\n">>,
    <<"{", "\"priority\": 1", "\"x\": \"Sue\"", "\"y\": 7", "}", "\n">>,
    <<"{", "\"priority\": 0", "}", "\n">>,
    <<"{", "\"priority\": \"2\"", "}", " ">>,
    <<"{", "}", "\n">>,
    <<"{", "x", "}", "\n">> }

Bodies ==
  { << >>,
    <<"MERGE", " ", "x", ";">>,
    <<"MERGE", " ", "x">>,
    <<"MERGE", " ", "$", "x", ";">>,
    <<"MERGE", " ", "$", "x", ";", "\n", "MATCH", " ", "$", "y", " ", "$", "x", ";", "\n">>,
    <<"RETURN", " ", "x", ";">>,
    <<"RETURN", " ", "$", "x", ";">>,
    <<"MERGE", " ", "$", " ", "x", ";">>,
    <<"MERGE", " ", "$", "x", "0", ";">>,
    <<"MERGE", " ", "{", "x", "}", " ", "MERGE", " ", "$", "priority", ";">>,
    <<"MERGE", " ", "x", ";", " ", "MERGE", " ", "y", ";", " ", "/", "/", "x", ";", "\n">>,
    <<"MERGE", " ", "x", ";", "\t", "\n">>,
    <<";", "MERGE", " ", "x", " ", ";", ";">> }

FileTexts == {pre \o head \o body : pre \in Prefixes, head \in Headers, body \in Bodies}

\* Files for the ordering of one job: they differ in their priority.
OrderFiles ==
  { <<"MERGE", " ", "x", ";">>,
    <<"{", "\"x\": \"Sue\"", "}", "\n", "MERGE", " ", "$", "x", ";">>,
    <<"{", " ", "\"priority\": 0", " ", "}", "\n",
      "MERGE", " ", "x", ";", "\n", "MERGE", " ", "y", ";">>,
    <<"{", " ", "\"priority\": 1", " ", "}", "\n", "MERGE", " ", "x">>,
    <<"{", " ", "\"priority\": 2", " ", "}", "\n", "MERGE", " ", "x", ";">> }

\* Files for the job queue: the three query sets of the loader's tests and a
\* file whose block leaves its placeholder without a value.
query_set_1 == <<"{", " ", "\"priority\": 1", " ", "}", "\n", "MERGE", " ", "x">>

query_set_2 ==
  <<"{", " ", "\"priority\": 0", " ", "}", "\n",
    "MERGE", " ", "x", ";", "\n", "MERGE", " ", "y", ";">>

query_set_3 == <<"MERGE", " ", "$", "x", ";">>

query_set_4 == <<"{", " ", "\"y\": 7", " ", "}", "\n", "MERGE", " ", "$", "x", ";">>

\* A file whose block gives its placeholder the value 0, and one whose block
\* gives neither of its statement's two placeholders a value.
query_set_5 == <<"{", " ", "\"x\": 0", " ", "}", "\n", "MERGE", " ", "$", "x", ";">>

query_set_6 == <<"{", " ", "}", "\n", "MATCH", " ", "$", "y", " ", "$", "x", ";">>

LoaderFiles ==
  {query_set_1, query_set_2, query_set_3, query_set_4, query_set_5, query_set_6}

SeqsUpTo(S, n) == UNION {[1..m -> S] : m \in 0..n}

GlobalParamSets ==
  { NoDict, Dict(<< >>),
    Dict([key \in {"x", "dummy"} |-> IntV(5)]),
    Dict([key \in {"y"} |-> IntV(5)]) }

Row == [start |-> "state1", end |-> "state2", cond |-> "low"]
Tables == SeqsUpTo({Row}, MaxRows)

\* Tables for the tabular generator.  The columns come sorted, as
\* pandas.DataFrame(dict) arranges them, or in an order of the caller's; the
\* cells of a column are strings (some with a parenthesis or the text of a
\* number or boolean), numbers and booleans.
Layouts ==
  { <<"cond", "end", "start">>,
    <<"cond1", "cond2", "end", "start">>,
    <<"start", "end", "cond2", "cond1">> }

CellsOf(column) ==
  CASE column = "start" ->
         {StrCell(<<"state1">>), StrCell(<<"1">>), IntCell(1), StrCell(<<"s", "(", "1">>)}
    [] column = "end" -> {StrCell(<<"state2">>)}
    [] column = "cond" -> {StrCell(<<"low">>), StrCell(<<"true">>), BoolCell(TRUE)}
    [] column = "cond1" -> {StrCell(<<"high">>)}
    [] column = "cond2" -> {IntCell(3), StrCell(<<"x", "(">>)}

RowsOf(columns) ==
  {cell \in [{columns[c] : c \in 1..Len(columns)} ->
               UNION {CellsOf(columns[c]) : c \in 1..Len(columns)}] :
     \A c \in 1..Len(columns) : cell[columns[c]] \in CellsOf(columns[c])}

\* pandas.DataFrame: its columns, its index (the default RangeIndex or labels
\* that count down from 5) and its rows.
DataFrames ==
  {[columns |-> columns, index |-> [i \in 1..Len(data) |-> IF ranged THEN i - 1 ELSE 6 - i],
    data |-> data] :
     columns \in Layouts, ranged \in BOOLEAN,
     data \in UNION {SeqsUpTo(RowsOf(l), MaxFrameRows) : l \in Layouts}}

\* Keys and values for CypherParams, and what it is initialised with: a dict
\* or the name of a json file.
ParamKeys ==
  { Key("str", "param1"), Key("str", "param2"), Key("unicode", "param3"),
    Key("int", "1"), Key("bool", "True") }

ParamValues == {IntV(2), StrV("some_string")}

ParamData ==
  {[isdict |-> TRUE, d |-> d, fname |-> ""] :
     d \in UNION {[keys -> ParamValues] :
                    keys \in {keys \in SUBSET ParamKeys : Cardinality(keys) <= MaxDictKeys}}}
  \cup {[isdict |-> FALSE, d |-> << >>, fname |-> fname] :
          fname \in {"test_params.json", "missing.json"}}

RefTypes == {"cypher", "tabular", "file", "not_cypher_or_tabular"}

\* Queries, parameter names and values for _parse_query_params: a name that
\* is the beginning of another, and a value with a "$" and a name in it.
SubstQueries ==
  { <<"MERGE", " ", "$", "x", " ", "$", "y", ";">>,
    <<"MERGE", " ", "$", "x", "1", " ", "$", "x", ";">>,
    <<"MERGE", " ", "$", "x", ";">>,
    <<"MERGE", " ", "x", ";">> }

SubstKeys == {<<"x">>, <<"x", "1">>, <<"y">>}

SubstValues == {<<"Sue">>, <<"7">>, <<"$", "y">>}

\* The dicts over a set of keys, each in every order its iteration can take.
SubstParams ==
  UNION {{params \in [1..Cardinality(keys) -> [k : keys, v : SubstValues]] :
            \A i, j \in 1..Cardinality(keys) : params[i].k = params[j].k => i = j} :
         keys \in SUBSET SubstKeys}

TabGlobalParams ==
  { NoDict, Dict(<< >>),
    Dict([key \in {"id", "version"} |->
            IF key = "id" THEN StrCell(<<"x">>) ELSE IntCell(2)]) }

(***************************************************************************)
(* SpecParse: one file is read and parsed.                                 *)
(***************************************************************************)
NotBuilt ==
  [error |-> "not constructed", filename |-> "", priority |-> IntV(0),
   explicit |-> FALSE, queries |-> << >>]

NoGen == [state |-> "none", j |-> 0, f |-> 0, q |-> 0]

\* No traversal of the job queue has run to its end yet.
NoTraversal == [count |-> 0, queue |-> << >>, yielded |-> << >>]

NoProcessor ==
  [df |-> [columns |-> << >>, index |-> << >>, data |-> << >>],
   start_state_col |-> "", end_state_col |-> "", global_params |-> NoDict,
   labels |-> CustomLabels]

NoIter == [state |-> "none", i |-> 0, last |-> ""]

NoParams == [built |-> FALSE, data |-> << >>]

NoSource == [built |-> FALSE, ref |-> "", ref_type |-> "", index |-> 0]

\* The objects of the other specifications are not built.
TabIdle == ttp = NoProcessor /\ query_iter = NoIter /\ ttp_yielded = << >>
NoCall ==
  [op |-> "", init |-> [isdict |-> FALSE, d |-> << >>, fname |-> ""],
   key |-> Key("", ""), val |-> NoneV, ref_type |-> "",
   before |-> <<NoParams, NoSource>>, error |-> ""]

BaseIdle == cypher_params = NoParams /\ query_source = NoSource /\ raised = NoCall

NoSubst == [called |-> FALSE, query |-> << >>, params |-> << >>, query_string |-> << >>]

InitParse ==
  /\ text \in FileTexts
  /\ cf = NotBuilt
  /\ load_job_queue = << >>
  /\ gen = NoGen
  /\ yielded = << >>
  /\ result = ""
  /\ cypher_files = << >>
  /\ loaded = << >>
  /\ previous = NoTraversal
  /\ resolutions = << >>
  /\ reads = 0
  /\ parsed_query = NoSubst
  /\ TabIdle
  /\ BaseIdle

Construct ==
  /\ cf = NotBuilt
  /\ cf' = CypherFile("f.cql", text)
  /\ reads' = reads + 1
  /\ UNCHANGED <<text, load_job_queue, gen, yielded, result, cypher_files, loaded, previous,
               resolutions, parsed_query,
               tab_vars, base_vars>>

\* cypher_file.queries: an empty cache is false, and the file is read and
\* parsed again before the cache is handed out.
CypherFile_queries ==
  /\ cf # NotBuilt
  /\ cf.error = ""
  /\ reads < MaxReads
  /\ IF cf.queries = << >>
     THEN /\ cf' = CypherFile(cf.filename, text)
          /\ reads' = reads + 1
     ELSE UNCHANGED <<cf, reads>>
  /\ UNCHANGED <<text, load_job_queue, gen, yielded, result, cypher_files, loaded, previous,
               resolutions, parsed_query, tab_vars, base_vars>>

NextParse == Construct \/ CypherFile_queries

SpecParse == InitParse /\ [][NextParse]_vars

(***************************************************************************)
(* Spec: jobs are registered and the queue is traversed.  The n-th         *)
(* registration names the n-th root directory.                             *)
(***************************************************************************)
Init ==
  /\ text = << >>
  /\ cf = NotBuilt
  /\ load_job_queue = << >>
  /\ gen = NoGen
  /\ yielded = << >>
  /\ result = ""
  /\ cypher_files = << >>
  /\ loaded = << >>
  /\ previous = NoTraversal
  /\ resolutions = << >>
  /\ reads = 0
  /\ parsed_query = NoSubst
  /\ TabIdle
  /\ BaseIdle

\* load_cypher with the job put at the head of the queue.
load_cypher_prepend(fnames, global_params) ==
  /\ Len(load_job_queue) < MaxJobs
  /\ load_job_queue' =
       <<IF DictTruthy(global_params)
         THEN DictJob(Len(load_job_queue) + 1, fnames, global_params.d)
         ELSE FinderJob(Len(load_job_queue) + 1, fnames)>> \o load_job_queue
  /\ UNCHANGED <<text, cf, gen, yielded, result, cypher_files, loaded, previous,
               resolutions, reads, parsed_query,
               tab_vars, base_vars>>

load_cypher(fnames, global_params) ==
  /\ Len(load_job_queue) < MaxJobs
  /\ load_job_queue' =
       Append(load_job_queue,
              IF DictTruthy(global_params)
              THEN DictJob(Len(load_job_queue) + 1, fnames, global_params.d)
              ELSE FinderJob(Len(load_job_queue) + 1, fnames))
  /\ UNCHANGED <<text, cf, gen, yielded, result, cypher_files, loaded, previous,
               resolutions, reads, parsed_query,
               tab_vars, base_vars>>

load_tabular(table) ==
  /\ Len(load_job_queue) < MaxJobs
  /\ load_job_queue' =
       Append(load_job_queue, TabularJob(Len(load_job_queue) + 1, table))
  /\ UNCHANGED <<text, cf, gen, yielded, result, cypher_files, loaded, previous,
               resolutions, reads, parsed_query,
               tab_vars, base_vars>>

\* iterqueries handing out a generator that goes on where the last one stood.
iterqueries_resumed ==
  /\ gen' = IF gen.state \in {"suspended", "exhausted"}
            THEN [gen EXCEPT !.state = "suspended"]
            ELSE [state |-> "suspended", j |-> 1, f |-> 1, q |-> 1]
  /\ yielded' = << >>
  /\ result' = ""
  /\ resolutions' = << >>
  /\ UNCHANGED <<text, cf, load_job_queue, cypher_files, loaded, previous, reads, parsed_query,
               tab_vars, base_vars>>

iterqueries ==
  /\ gen' = [state |-> "suspended", j |-> 1, f |-> 1, q |-> 1]
  /\ yielded' = << >>
  /\ result' = ""
  /\ resolutions' = << >>
  /\ UNCHANGED <<text, cf, load_job_queue, cypher_files, loaded, previous, reads, parsed_query,
               tab_vars, base_vars>>

\* next(queries): a suspended generator runs on; a closed one (exhausted, or
\* ended by an exception) raises StopIteration.
next ==
  /\ gen.state # "none"
  /\ IF gen.state = "suspended"
     THEN LET Step(r) ==
                /\ result' = r.outcome
                /\ previous' =
                     IF r.outcome = "StopIteration"
                     THEN [count |-> IF previous.count < MaxTraversals
                                     THEN previous.count + 1 ELSE MaxTraversals,
                           queue |-> load_job_queue, yielded |-> yielded]
                     ELSE previous
                /\ yielded' = yielded \o r.query
                /\ resolutions' = resolutions \o r.done
                /\ gen' = [state |-> CASE r.outcome = "yield" -> "suspended"
                                       [] r.outcome = "StopIteration" -> "exhausted"
                                       [] OTHER -> "failed",
                           j |-> r.j, f |-> r.f, q |-> r.q]
          IN Step(Resume(load_job_queue, gen.j, gen.f, gen.q))
     ELSE /\ result' = "StopIteration"
          /\ UNCHANGED <<gen, yielded, previous, resolutions>>
  /\ UNCHANGED <<text, cf, load_job_queue, cypher_files, loaded, tab_vars, base_vars,
               reads, parsed_query>>

Next ==
  \/ \E fnames \in SeqsUpTo(LoaderFiles, MaxJobFiles), global_params \in GlobalParamSets :
        load_cypher(fnames, global_params)
  \/ \E table \in Tables : load_tabular(table)
  \/ iterqueries
  \/ next

Spec == Init /\ [][Next]_vars

(***************************************************************************)
(* SpecOrder: a ServerGraphLoader is built on one directory and loads it.  *)
(***************************************************************************)
GraphLoader(root_dir, fnames) ==
  _get_sorted_cypher_files(get_cypher_files(root_dir, fnames))

InitOrder ==
  /\ text = << >>
  /\ cf = NotBuilt
  /\ load_job_queue = << >>
  /\ gen = NoGen
  /\ yielded = << >>
  /\ result = ""
  /\ \E fnames \in SeqsUpTo(OrderFiles, MaxOrderFiles) :
        cypher_files = GraphLoader(1, fnames)
  /\ loaded = << >>
  /\ previous = NoTraversal
  /\ resolutions = << >>
  /\ reads = 0
  /\ parsed_query = NoSubst
  /\ TabIdle
  /\ BaseIdle

\* load_cypher walking the list from its front instead of popping its end.
ServerGraphLoader_load_cypher_forward ==
  /\ loaded = << >>
  /\ cypher_files # << >>
  /\ loaded' = AllQueries(cypher_files)
  /\ UNCHANGED <<text, cf, load_job_queue, gen, yielded, result, cypher_files,
               previous, resolutions, reads, parsed_query, tab_vars, base_vars>>

\* ServerGraphLoader.load_cypher: every file popped off the stack has its
\* queries run in turn.
ServerGraphLoader_load_cypher ==
  /\ loaded = << >>
  /\ cypher_files # << >>
  /\ loaded' = AllQueries(PopOrder(cypher_files))
  /\ UNCHANGED <<text, cf, load_job_queue, gen, yielded, result, cypher_files,
               previous, resolutions, reads, parsed_query, tab_vars, base_vars>>

NextOrder == ServerGraphLoader_load_cypher

SpecOrder == InitOrder /\ [][NextOrder]_vars

(***************************************************************************)
(* SpecTab: a TransTableProcessor is built on a table and its queries are  *)
(* pulled.                                                                 *)
(***************************************************************************)
TransTableProcessor(df, start_state_col, end_state_col, global_params) ==
  [df |-> df, start_state_col |-> start_state_col, end_state_col |-> end_state_col,
   global_params |-> global_params, labels |-> CustomLabels]

\* df.iterrows(): the i-th pair of index label and row.
iterrows(df, i) == <<df.index[i], [columns |-> df.columns, cell |-> df.data[i]]>>

InitTab ==
  /\ text = << >>
  /\ cf = NotBuilt
  /\ load_job_queue = << >>
  /\ gen = NoGen
  /\ yielded = << >>
  /\ result = ""
  /\ cypher_files = << >>
  /\ loaded = << >>
  /\ previous = NoTraversal
  /\ resolutions = << >>
  /\ reads = 0
  /\ parsed_query = NoSubst
  /\ \E df \in DataFrames, global_params \in TabGlobalParams :
        /\ \A i \in 1..Len(df.data) :
              DOMAIN df.data[i] = {df.columns[c] : c \in 1..Len(df.columns)}
        /\ ttp = TransTableProcessor(df, "start", "end", global_params)
  /\ query_iter = NoIter
  /\ ttp_yielded = << >>
  /\ BaseIdle

\* query_iter = ttp.iterqueries()
ttp_iterqueries ==
  /\ query_iter' = [state |-> "suspended", i |-> 1, last |-> ""]
  /\ ttp_yielded' = << >>
  /\ UNCHANGED <<text, cf, load_job_queue, gen, yielded, result, cypher_files, loaded,
                 previous, resolutions, reads, parsed_query, ttp, base_vars>>

\* query_iter.next(): the next row's query, or StopIteration.
ttp_next ==
  /\ query_iter.state # "none"
  /\ IF query_iter.state = "suspended" /\ query_iter.i <= Len(ttp.df.data)
     THEN LET Yield(pair) ==
                /\ ttp_yielded' =
                     Append(ttp_yielded, _row_to_cypher_query(ttp, pair[1], pair[2]))
                /\ query_iter' = [state |-> "suspended", i |-> query_iter.i + 1,
                                  last |-> "yield"]
          IN Yield(iterrows(ttp.df, query_iter.i))
     ELSE /\ query_iter' = [state |-> "exhausted", i |-> query_iter.i,
                            last |-> "StopIteration"]
          /\ UNCHANGED ttp_yielded
  /\ UNCHANGED <<text, cf, load_job_queue, gen, yielded, result, cypher_files, loaded,
                 previous, resolutions, reads, parsed_query, ttp, base_vars>>

NextTab == ttp_iterqueries \/ ttp_next

SpecTab == InitTab /\ [][NextTab]_vars

(***************************************************************************)
(* SpecBase: CypherParams and CypherQuerySource objects are built and      *)
(* changed.  A constructor that raises leaves the object there was.        *)
(***************************************************************************)
InitBase ==
  /\ text = << >>
  /\ cf = NotBuilt
  /\ load_job_queue = << >>
  /\ gen = NoGen
  /\ yielded = << >>
  /\ result = ""
  /\ cypher_files = << >>
  /\ loaded = << >>
  /\ previous = NoTraversal
  /\ resolutions = << >>
  /\ reads = 0
  /\ parsed_query = NoSubst
  /\ TabIdle
  /\ BaseIdle

\* CypherParams(val), and cp.data = val on the object there is.
CypherParams(val) ==
  LET Store(r) ==
        /\ cypher_params' = IF r.error = "" THEN [built |-> TRUE, data |-> r.data]
                            ELSE cypher_params
        /\ raised' = [NoCall EXCEPT !.op = "CypherParams", !.init = val,
                                    !.before = <<cypher_params, query_source>>,
                                    !.error = r.error]
  IN /\ Store(data_setter(val))
     /\ UNCHANGED <<text, cf, load_job_queue, gen, yielded, result, cypher_files, loaded,
                    previous, resolutions, reads, parsed_query, tab_vars, query_source>>

\* cp[key] = val
CypherParams_setitem(key, val) ==
  LET Store(r) ==
        /\ cypher_params' = [cypher_params EXCEPT !.data = r.data]
        /\ raised' = [NoCall EXCEPT !.op = "__setitem__", !.key = key, !.val = val,
                                    !.before = <<cypher_params, query_source>>,
                                    !.error = r.error]
  IN /\ cypher_params.built
     /\ Cardinality(DOMAIN cypher_params.data \cup {key}) <= MaxDictKeys
     /\ Store(__setitem__(cypher_params.data, key, val))
     /\ UNCHANGED <<text, cf, load_job_queue, gen, yielded, result, cypher_files, loaded,
                    previous, resolutions, reads, parsed_query, tab_vars, query_source>>

\* CypherQuerySource(ref, ref_type, index)
CypherQuerySource_init(ref, ref_type, index) ==
  LET Store(r) ==
        /\ query_source' = IF r.error = "" THEN r.self ELSE query_source
        /\ raised' = [NoCall EXCEPT !.op = "CypherQuerySource", !.ref_type = ref_type,
                                    !.before = <<cypher_params, query_source>>,
                                    !.error = r.error]
  IN /\ Store(ref_type_setter([built |-> TRUE, ref |-> ref, ref_type |-> "",
                                index |-> index], ref_type))
     /\ UNCHANGED <<text, cf, load_job_queue, gen, yielded, result, cypher_files, loaded,
                    previous, resolutions, reads, parsed_query, tab_vars, cypher_params>>

\* s.ref_type = val
CypherQuerySource_ref_type(val) ==
  LET Store(r) ==
        /\ query_source' = r.self
        /\ raised' = [NoCall EXCEPT !.op = "ref_type", !.ref_type = val,
                                    !.before = <<cypher_params, query_source>>,
                                    !.error = r.error]
  IN /\ query_source.built
     /\ Store(ref_type_setter(query_source, val))
     /\ UNCHANGED <<text, cf, load_job_queue, gen, yielded, result, cypher_files, loaded,
                    previous, resolutions, reads, parsed_query, tab_vars, cypher_params>>

NextBase ==
  \/ \E val \in ParamData : CypherParams(val)
  \/ \E key \in ParamKeys, val \in ParamValues : CypherParams_setitem(key, val)
  \/ \E ref_type \in RefTypes, index \in {0, 10} :
        CypherQuerySource_init("queries.cql", ref_type, index)
  \/ \E val \in RefTypes : CypherQuerySource_ref_type(val)

SpecBase == InitBase /\ [][NextBase]_vars

(***************************************************************************)
(* SpecSubst: _parse_query_params is called on a query and a dict.         *)
(***************************************************************************)
InitSubst ==
  /\ text = << >>
  /\ cf = NotBuilt
  /\ load_job_queue = << >>
  /\ gen = NoGen
  /\ yielded = << >>
  /\ result = ""
  /\ cypher_files = << >>
  /\ loaded = << >>
  /\ previous = NoTraversal
  /\ resolutions = << >>
  /\ reads = 0
  /\ \E query \in SubstQueries, params \in SubstParams :
        parsed_query = [called |-> FALSE, query |-> query, params |-> params,
                        query_string |-> << >>]
  /\ TabIdle
  /\ BaseIdle

\* query_string = self._parse_query_params(query, params)
GraphLoader_parse_query_params ==
  /\ ~parsed_query.called
  /\ parsed_query' =
       [parsed_query EXCEPT !.called = TRUE,
                            !.query_string = _parse_query_params(parsed_query.query,
                                                                 parsed_query.params)]
  /\ UNCHANGED <<text, cf, load_job_queue, gen, yielded, result, cypher_files, loaded,
                 previous, resolutions, reads, tab_vars, base_vars>>

NextSubst == GraphLoader_parse_query_params

SpecSubst == InitSubst /\ [][NextSubst]_vars

(***************************************************************************)
(* Properties of the job queue (Spec).  A yielded query names its file by  *)
(* <<root directory, position>>; the n-th registered job has root n.       *)
(***************************************************************************)

C5_GlobalParamsYield ==
  gen.state = "exhausted" =>
    \A j \in 1..Len(load_job_queue) :
      (j < gen.j /\ load_job_queue[j].kind = "dict") =>
        /\ Cardinality({a \in 1..Len(yielded) :
                          yielded[a].source.ref[1] = load_job_queue[j].root_dir})
             = Len(AllQueries(iterfiles(load_job_queue[j].root_dir,
                                        load_job_queue[j].fnames).files))
        /\ \A a \in 1..Len(yielded) :
              yielded[a].source.ref[1] = load_job_queue[j].root_dir =>
                /\ ~yielded[a].params.isNone
                /\ \A key \in DOMAIN yielded[a].params.d :
                      yielded[a].params.d[key] # NoneV

\* C6 (as stated): no query is ever yielded whose params hold None for a
\* placeholder.
C6_NoUnresolvedYield ==
  \A a \in 1..Len(yielded) :
    ~yielded[a].params.isNone =>
      \A key \in DOMAIN yielded[a].params.d : yielded[a].params.d[key] # NoneV

\* C7 (as stated): once a traversal has run to its end, every tabular job it
\* passed has yielded one tabular query per row of its table.
C7_TabularYield ==
  gen.state = "exhausted" =>
    \A j \in 1..Len(load_job_queue) :
      (j < gen.j /\ load_job_queue[j].kind = "tabular") =>
        Cardinality({a \in 1..Len(yielded) :
                       /\ yielded[a].source.ref_type = "tabular"
                       /\ yielded[a].source.ref[1] = load_job_queue[j].root_dir})
          = Len(load_job_queue[j].table)

(***************************************************************************)
(* Properties of the load order within one directory (SpecOrder).  "An     *)
(* explicit priority" is an integer the file's block gives under the key   *)
(* priority.                                                               *)
(***************************************************************************)

\* C2 (as stated): files load by descending priority: of two loaded queries
\* the one whose file has the higher explicit priority comes first.
C2_DescendingPriority ==
  LET file(a) == CHOOSE i \in 1..Len(cypher_files) :
                    cypher_files[i].filename = loaded[a].source.ref
      given(a) == /\ cypher_files[file(a)].explicit
                  /\ cypher_files[file(a)].priority.k = "int"
      number(a) == cypher_files[file(a)].priority.n
  IN \A a, b \in 1..Len(loaded) :
        (given(a) /\ given(b) /\ number(a) > number(b)) => a < b

\* C2 (amended): files load by ascending priority: of two loaded queries the
\* one whose file has the higher explicit priority comes later, so that a
\* priority-0 file's queries come before a priority-1 file's.
C2_AscendingPriority ==
  LET file(a) == CHOOSE i \in 1..Len(cypher_files) :
                    cypher_files[i].filename = loaded[a].source.ref
      given(a) == /\ cypher_files[file(a)].explicit
                  /\ cypher_files[file(a)].priority.k = "int"
      number(a) == cypher_files[file(a)].priority.n
  IN \A a, b \in 1..Len(loaded) :
        (given(a) /\ given(b) /\ number(a) > number(b)) => b < a

\* C2 witness: one priority-1 file and one priority-0 file have been loaded.
C2_Witness ==
  /\ Len(cypher_files) = 2
  /\ loaded # << >>
  /\ \E i, j \in 1..2 :
        /\ cypher_files[i].explicit /\ cypher_files[i].priority = IntV(1)
        /\ cypher_files[j].explicit /\ cypher_files[j].priority = IntV(0)
        /\ loaded[1].source.ref = cypher_files[j].filename
        /\ loaded[Len(loaded)].source.ref = cypher_files[i].filename

\* C3: priority-0 files load first: when file A has a lower explicit priority
\* number than file B, all of A's queries have been run, in the file's own
\* order, before any query of B.
C3_LowerNumberFirst ==
  LET at(i) == {a \in 1..Len(loaded) : loaded[a].source.ref = cypher_files[i].filename}
      given(i) == cypher_files[i].explicit /\ cypher_files[i].priority.k = "int"
  IN loaded # << >> =>
       \A A, B \in 1..Len(cypher_files) :
          (given(A) /\ given(B) /\ cypher_files[A].priority.n < cypher_files[B].priority.n)
          => /\ Cardinality(at(A)) = Len(cypher_files[A].queries)
             /\ \A a \in at(A), b \in at(B) : a < b
             /\ \A a, b \in at(A) :
                   a < b => loaded[a].source.index < loaded[b].source.index

\* C3 witness: the priority-0 file's two queries, then the priority-1 file's
\* one.
C3_Witness ==
  /\ Len(loaded) = 3
  /\ \E A, B \in 1..Len(cypher_files) :
        /\ cypher_files[A].explicit /\ cypher_files[A].priority = IntV(0)
        /\ cypher_files[B].explicit /\ cypher_files[B].priority = IntV(1)
        /\ loaded[1].source = CypherQuerySource(cypher_files[A].filename, "cypher", 0)
        /\ loaded[2].source = CypherQuerySource(cypher_files[A].filename, "cypher", 1)
        /\ loaded[3].source = CypherQuerySource(cypher_files[B].filename, "cypher", 0)

C8_StatementParams ==
  LET dat == _remove_comments_and_newlines(text)
      first == {i \in 1..Len(dat) : ~IsSpace(dat[i])}
      close == {i \in 1..Len(dat) : dat[i] = "}"}
      object == IF first # {} /\ close # {} /\ dat[SetMin(first)] = "{"
                THEN json_loads(SubSeq(dat, 1, SetMin(close)))
                ELSE [error |-> "no object", obj |-> << >>]
      alnum(t) == t \in {"x", "y", "0", "1", "priority",
                         "START", "MATCH", "MERGE", "CREATE", "RETURN"}
      stop(st, i) == SetMin({e \in (i + 1)..(Len(st) + 1) :
                               e = Len(st) + 1 \/ ~alnum(st[e])})
      placeholders(st) ==
        {Concat(SubSeq(st, i + 1, stop(st, i) - 1)) :
           i \in {i \in 1..(Len(st) - 1) : st[i] = "$" /\ alnum(st[i + 1])}}
      value(name) == IF name \in DOMAIN object.obj \ {"priority"}
                     THEN object.obj[name] ELSE NoneV
      expected(st) == IF placeholders(st) = {} THEN NoDict
                      ELSE Dict([name \in placeholders(st) |-> value(name)])
  IN (cf # NotBuilt /\ cf.error = "" /\ object.error = "") =>
       \A i \in 1..Len(cf.queries) :
          cf.queries[i].params = expected(cf.queries[i].statement)

\* C9 (as stated): a file without a leading block that uses $x parses, and
\* each statement that uses $x has params with x mapped to None.
C9_NoBlockPlaceholder ==
  LET dat == _remove_comments_and_newlines(text)
      first == {i \in 1..Len(dat) : ~IsSpace(dat[i])}
      uses(st) == \E i \in 1..(Len(st) - 2) :
                     st[i] = "$" /\ st[i + 1] = "x" /\ st[i + 2] \in {";", " "}
  IN (/\ cf # NotBuilt
      /\ first # {}
      /\ dat[SetMin(first)] # "{"
      /\ uses(dat))
     => /\ cf.error = ""
        /\ \A i \in 1..Len(cf.queries) :
              uses(cf.queries[i].statement) =>
                 /\ ~cf.queries[i].params.isNone
                 /\ "x" \in DOMAIN cf.queries[i].params.d
                 /\ cf.queries[i].params.d["x"] = NoneV

\* C10 (as stated): a parsed file whose leading object has the key priority
\* has that value as its priority and resolves no placeholder from it, while
\* the other keys keep their values; a parsed file without a leading object,
\* or without the key in it, has priority 0.
C10_PriorityFromBlock ==
  LET dat == _remove_comments_and_newlines(text)
      first == {i \in 1..Len(dat) : ~IsSpace(dat[i])}
      close == {i \in 1..Len(dat) : dat[i] = "}"}
      object == IF first # {} /\ close # {} /\ dat[SetMin(first)] = "{"
                THEN json_loads(SubSeq(dat, 1, SetMin(close)))
                ELSE [error |-> "no object", obj |-> << >>]
      resolved == _extract_parameters(dat).param_dict
  IN (cf # NotBuilt /\ cf.error = "") =>
       IF object.error = "" /\ "priority" \in DOMAIN object.obj
       THEN /\ cf.priority = object.obj["priority"]
            /\ ~resolved.isNone
            /\ resolved.d = [key \in DOMAIN object.obj \ {"priority"} |-> object.obj[key]]
       ELSE (object.error = "no object" \/ object.error = "")
               => cf.priority = IntV(0)

\* C11 (as stated): the statement text of a parsed file (what follows the
\* parameter block) gives one statement per non-blank fragment between ";"
\* terminators, in file order: the i-th statement is the i-th such fragment
\* (up to its surrounding whitespace) with one ";" at its end and none
\* elsewhere, and carries the source (file name, "cypher", i - 1).
C11_StatementSplit ==
  LET rest == _extract_parameters(_remove_comments_and_newlines(text)).queries
      ends == {i \in 1..Len(rest) : rest[i] = ";"} \cup {Len(rest) + 1}
      from(e) == IF {b \in ends : b < e} = {} THEN 1
                 ELSE SetMax({b \in ends : b < e}) + 1
      fragment(e) == SubSeq(rest, from(e), e - 1)
      solid(str) == SelectSeq(str, LAMBDA t : ~IsSpace(t))
      nonblank == {e \in ends : solid(fragment(e)) # << >>}
      nth(i) == CHOOSE e \in nonblank : Cardinality({o \in nonblank : o <= e}) = i
  IN (cf # NotBuilt /\ cf.error = "") =>
       /\ Len(cf.queries) = Cardinality(nonblank)
       /\ \A i \in 1..Len(cf.queries) :
             /\ solid(cf.queries[i].statement) = solid(fragment(nth(i))) \o <<";">>
             /\ {c \in 1..Len(cf.queries[i].statement) : cf.queries[i].statement[c] = ";"}
                  = {Len(cf.queries[i].statement)}
             /\ cf.queries[i].source = CypherQuerySource(cf.filename, "cypher", i - 1)

C13_OnePerRow ==
  /\ query_iter.state = "suspended" => Len(ttp_yielded) = query_iter.i - 1
  /\ query_iter.state = "exhausted" => Len(ttp_yielded) = Len(ttp.df.data)
  /\ Len(ttp_yielded) <= Len(ttp.df.data)
  /\ \A a \in 1..Len(ttp_yielded) :
        /\ ttp_yielded[a].params = NoDict
        /\ ttp_yielded[a].statement[Len(ttp_yielded[a].statement)] = ";"
        /\ ttp_yielded[a].source =
             [ref |-> ttp.df, ref_type |-> "tabular", index |-> ttp.df.index[a]]
        /\ ttp_yielded[a].statement =
             _row_to_query_statement_string(
               ttp, [columns |-> ttp.df.columns, cell |-> ttp.df.data[a]])

\* C13 witness: a table of two rows with the index labels 5 and 4 has been
\* iterated to exhaustion.
C13_Witness ==
  /\ query_iter.state = "exhausted"
  /\ query_iter.last = "StopIteration"
  /\ Len(ttp.df.data) = 2
  /\ ttp.df.index = <<5, 4>>
  /\ Len(ttp_yielded) = 2
  /\ ttp_yielded[2].source.index = 4

\* C14 (as stated): the Condition node's properties are rendered sorted by
\* key, and a row's statement is the same whatever the order of the table's
\* columns.
C14_SortedConditions ==
  LET conds == {ttp.df.columns[c] : c \in 1..Len(ttp.df.columns)} \ {"start", "end"}
      same(l) == {l[c] : c \in 1..Len(l)} = {ttp.df.columns[c] : c \in 1..Len(ttp.df.columns)}
  IN \A a \in 1..Len(ttp_yielded) :
        /\ SelectSeq(ttp_yielded[a].statement, LAMBDA t : t \in conds) = SortedKeys(conds)
        /\ \A l \in Layouts :
              same(l) =>
                _row_to_query_statement_string(
                  ttp, [columns |-> l, cell |-> ttp.df.data[a]])
                  = ttp_yielded[a].statement

\* C15 (as stated): with a non-empty mapping of global parameters, the
\* statement of every row is the four-node pattern in which each of the start,
\* end, transition and condition nodes has the global pairs once, sorted by
\* key, after the node's own properties (the transition node in a block made
\* for them).
C15_GlobalsOnEveryNode ==
  LET pair(key) ==
        <<key, ":">>
          \o (IF ttp.global_params.d[key].k = "str"
              THEN <<"\"">> \o ttp.global_params.d[key].s \o <<"\"">>
              ELSE py_str(ttp.global_params.d[key]))
      pairs == Join([i \in 1..Len(SortedKeys(DOMAIN ttp.global_params.d)) |->
                       pair(SortedKeys(DOMAIN ttp.global_params.d)[i])], ", ")
      own(row) == _conditions_str([columns |-> ttp.df.columns, cell |-> row], "start", "end")
      expected(row) ==
        <<"MERGE", " ", "(", "start:", "State", " ", "{", "code:", "\"">>
          \o py_str(row["start"]) \o <<"\"", ", ">> \o pairs \o <<"}", ")", " ">>
          \o <<"MERGE", " ", "(", "end:", "State", " ", "{", "code:", "\"">>
          \o py_str(row["end"]) \o <<"\"", ", ">> \o pairs \o <<"}", ")", " ">>
          \o <<"MERGE", " ", "(", "start", ")", "<-[:SOURCE]-", "(", "trans:",
               "Transition", " ", "{">> \o pairs
          \o <<"}", ")", "-[:TARGET]->", "(", "end", ")", " ">>
          \o <<"MERGE", " ", "(", "cond:", "Condition", " ">>
          \o SubSeq(own(row), 1, Len(own(row)) - 1) \o <<", ">> \o pairs
          \o <<"}", ")", "-[:CAUSES]->", "(", "trans", ")", ";">>
  IN DictTruthy(ttp.global_params) =>
       \A a \in 1..Len(ttp_yielded) :
          ttp_yielded[a].statement = expected(ttp.df.data[a])

\* C16 (as stated): a row's statement tells the row: every other row over the
\* same columns, differing from it in the value or only in the kind of some
\* cell, has a different statement.
C16_Lossless ==
  \A a \in 1..Len(ttp_yielded) :
    \A other \in RowsOf(ttp.df.columns) :
      other # ttp.df.data[a] =>
        _row_to_query_statement_string(ttp, [columns |-> ttp.df.columns, cell |-> other])
          # ttp_yielded[a].statement

(***************************************************************************)
(* Properties of the basic classes (SpecBase).                             *)
(***************************************************************************)

\* C17 (as stated): every key of a CypherParams is a string; building one
\* from a dict raises TypeError exactly when the dict has a key that is not a
\* string; an insertion under a key that is not a string raises TypeError and
\* leaves the mapping as it was; an insertion under a string key is accepted
\* and the value is there afterwards.
C17_StringKeys ==
  LET string(key) == key.k \in {"str", "unicode"}
  IN /\ \A key \in DOMAIN cypher_params.data : string(key)
     /\ (raised.op = "CypherParams" /\ raised.init.isdict) =>
          IF \A key \in DOMAIN raised.init.d : string(key)
          THEN raised.error = "" /\ cypher_params.data = raised.init.d
          ELSE raised.error = "TypeError" /\ cypher_params = raised.before[1]
     /\ raised.op = "__setitem__" =>
          IF string(raised.key)
          THEN /\ raised.error = ""
               /\ raised.key \in DOMAIN cypher_params.data
               /\ cypher_params.data[raised.key] = raised.val
          ELSE raised.error = "TypeError" /\ cypher_params = raised.before[1]

\* C18: the ref_type of a CypherQuerySource is always "cypher" or "tabular":
\* a construction with another value raises ValueError and builds nothing, a
\* reassignment to another value raises ValueError and leaves the ref_type
\* there was, and one of the two values is taken over.
C18_ValidRefType ==
  /\ query_source.built => query_source.ref_type \in {"cypher", "tabular"}
  /\ raised.op \in {"CypherQuerySource", "ref_type"} =>
       IF raised.ref_type \in {"cypher", "tabular"}
       THEN /\ raised.error = ""
            /\ query_source.built
            /\ query_source.ref_type = raised.ref_type
       ELSE raised.error = "ValueError" /\ query_source = raised.before[2]

\* C18 witness: a "cypher" source has refused the reassignment of its
\* ref_type to "file".
C18_Witness ==
  /\ raised.op = "ref_type"
  /\ raised.ref_type = "file"
  /\ raised.error = "ValueError"
  /\ query_source.built
  /\ query_source.ref_type = "cypher"

(***************************************************************************)
(* Properties of a whole traversal of the job queue (Spec).                *)
(***************************************************************************)

\* C19 (as stated): a traversal that has signalled its end has yielded as
\* many queries as there are statements in all files of all jobs it went
\* through, and a pull on it signals the end again.
C19_FullTraversal ==
  LET RECURSIVE Total(_)
      Total(j) ==
        IF j = 0 THEN 0
        ELSE Total(j - 1)
               + Len(AllQueries(get_cypher_files(load_job_queue[j].root_dir,
                                                 load_job_queue[j].fnames)))
  IN gen.state = "exhausted" =>
       /\ result = "StopIteration"
       /\ Len(yielded) = Total(gen.j - 1)

\* C20: iterating leaves the job queue alone and a registration only appends
\* to it; a traversal begins at the first registered job (no job before the
\* one of its first query has a query to yield); and a traversal that runs to
\* its end on the queue on which the last one ended yields the same queries,
\* statements and params, in the same order.
C20_QueueNotConsumed ==
  [][/\ load_job_queue' # load_job_queue =>
          /\ Len(load_job_queue') = Len(load_job_queue) + 1
          /\ SubSeq(load_job_queue', 1, Len(load_job_queue)) = load_job_queue
     /\ (gen' # gen \/ yielded' # yielded) => load_job_queue' = load_job_queue
     /\ (yielded = << >> /\ yielded' # << >>) =>
          \A j \in 1..(yielded'[1].source.ref[1] - 1) :
             \/ load_job_queue[j].kind # "finder"
             \/ AllQueries(get_cypher_files(load_job_queue[j].root_dir,
                                            load_job_queue[j].fnames)) = << >>
     /\ (previous' # previous /\ previous.count >= 1
           /\ previous.queue = load_job_queue) =>
          previous'.yielded = previous.yielded
    ]_vars

\* C20 witness: the queue of the priority-1 file and the priority-0 file has
\* been traversed to its end twice, three queries each time.
C20_Witness ==
  /\ previous.count = 2
  /\ gen.state = "exhausted"
  /\ load_job_queue = <<FinderJob(1, <<query_set_1>>), FinderJob(2, <<query_set_2>>)>>
  /\ previous.queue = load_job_queue
  /\ Len(previous.yielded) = 3
  /\ yielded = previous.yielded

(***************************************************************************)
(* Properties of the resolution against a job's global parameters (Spec).  *)
(***************************************************************************)

\* C21 (as stated): the resolution against the job's global parameters leaves
\* a query's statement and source alone and changes only the params entries
\* the file gave no value: an entry with a value from the file, be it 0, false
\* or "", keeps it, also when the global parameters have the same key.
C21_ResolutionFrame ==
  \A i \in 1..Len(resolutions) :
    /\ resolutions[i].after.statement = resolutions[i].before.statement
    /\ resolutions[i].after.source = resolutions[i].before.source
    /\ resolutions[i].after.params.isNone = resolutions[i].before.params.isNone
    /\ ~resolutions[i].before.params.isNone =>
         /\ DOMAIN resolutions[i].after.params.d = DOMAIN resolutions[i].before.params.d
         /\ \A key \in DOMAIN resolutions[i].before.params.d :
               resolutions[i].before.params.d[key] # NoneV =>
                 resolutions[i].after.params.d[key] = resolutions[i].before.params.d[key]

\* C28 (as stated): in a job with global parameters a statement without
\* placeholders (params None) goes through the resolution unchanged and
\* without an exception, and the traversal goes on.
C28_NoPlaceholderPassesThrough ==
  \A i \in 1..Len(resolutions) :
    resolutions[i].before.params.isNone =>
      /\ resolutions[i].error = ""
      /\ resolutions[i].after = resolutions[i].before
      /\ i = Len(resolutions) => gen.state # "failed"

\* C29 (as stated): when the resolution of a statement ends in KeyError, the
\* query's params are what they were before the resolution of that statement
\* began.
C29_FailedResolutionChangesNothing ==
  \A i \in 1..Len(resolutions) :
    resolutions[i].error = "KeyError" =>
      resolutions[i].after.params = resolutions[i].before.params

(***************************************************************************)
(* Further properties of one parsed file (SpecParse).  The balanced block   *)
(* of a text that begins with "{" is its prefix up to the first position at *)
(* which as many "}" as "{" have been read.                                 *)
(***************************************************************************)

\* C22 (as stated): when the text without comments begins with "{" and its
\* balanced block decodes as an object, the parameters are that object
\* (without priority) and the statements are read from what follows the
\* block, whatever word comes next and whatever braces come later.
C22_BalancedBlock ==
  LET dat == _remove_comments_and_newlines(text)
      depth(e) == Cardinality({i \in 1..e : dat[i] = "{"})
                    - Cardinality({i \in 1..e : dat[i] = "}"})
      ends == {e \in 1..Len(dat) : depth(e) = 0}
      object == json_loads(SubSeq(dat, 1, SetMin(ends)))
      remainder == SubSeq(dat, SetMin(ends) + 1, Len(dat))
      Holds(got) ==
        /\ got.error = ""
        /\ ~got.param_dict.isNone
        /\ got.param_dict.d = [key \in DOMAIN object.obj \ {"priority"} |-> object.obj[key]]
        /\ lstrip(got.queries) = lstrip(remainder)
  IN (/\ cf # NotBuilt
      /\ dat # << >>
      /\ dat[1] = "{"
      /\ ends # {}
      /\ object.error = "")
     => Holds(_extract_parameters(dat))

\* C23 (as stated): a file whose text without comments begins with a
\* balanced block that does not decode as an object is not parsed: the
\* constructor raises, and no statement of the file is produced.
C23_InvalidBlockPropagates ==
  LET dat == _remove_comments_and_newlines(text)
      depth(e) == Cardinality({i \in 1..e : dat[i] = "{"})
                    - Cardinality({i \in 1..e : dat[i] = "}"})
      ends == {e \in 1..Len(dat) : depth(e) = 0}
  IN (/\ cf # NotBuilt
      /\ dat # << >>
      /\ dat[1] = "{"
      /\ ends # {}
      /\ json_loads(SubSeq(dat, 1, SetMin(ends))).error # "")
     => cf.error # "" /\ cf.queries = << >>

\* C24 (as stated): the names in a statement's params are the runs of one
\* or more letters and digits (0 to 9) that directly follow a "$", each run
\* taken whole; a "$" with no letter or digit behind it gives no name, and a
\* statement with no name has params None.
C24_PlaceholderNames ==
  LET alphanumeric(t) == t \in {"x", "y", "0", "1", "priority",
                                "START", "MATCH", "MERGE", "CREATE", "RETURN"}
      stop(st, i) == SetMin({e \in (i + 1)..(Len(st) + 1) :
                               e = Len(st) + 1 \/ ~alphanumeric(st[e])})
      names(st) ==
        {Concat(SubSeq(st, i + 1, stop(st, i) - 1)) :
           i \in {i \in 1..(Len(st) - 1) : st[i] = "$" /\ alphanumeric(st[i + 1])}}
  IN (cf # NotBuilt /\ cf.error = "") =>
       \A i \in 1..Len(cf.queries) :
          IF names(cf.queries[i].statement) = {}
          THEN cf.queries[i].params.isNone
          ELSE /\ ~cf.queries[i].params.isNone
               /\ DOMAIN cf.queries[i].params.d = names(cf.queries[i].statement)

\* C25 (as stated): a fragment between terminators that is made of
\* whitespace only gives no statement: a parsed file has one statement per
\* fragment with something other than whitespace in it, and none of its
\* statements is the bare ";".
C25_NoBlankStatement ==
  LET rest == _extract_parameters(_remove_comments_and_newlines(text)).queries
      fragments == Split(rest, ";")
      blank(q) == \A i \in 1..Len(q) : IsSpace(q[i])
  IN (cf # NotBuilt /\ cf.error = "") =>
       /\ Len(cf.queries) = Len(SelectSeq(fragments, LAMBDA q : ~blank(q)))
       /\ \A i \in 1..Len(cf.queries) : cf.queries[i].statement # <<";">>

\* C27 (as stated): the priority of a parsed file is an integer, whatever the
\* block gave for it (the string "2" gives 2), and it is the file's own key
\* when files are sorted.
C27_PriorityIsInteger ==
  (cf # NotBuilt /\ cf.error = "") =>
    /\ cf.priority.k = "int"
    /\ get_priority_number(cf, MaxOrderFiles) = cf.priority.n
    /\ \A i \in 1..Len(text) :
          (text[i] = "\"priority\": \"2\"" /\ cf.explicit) => cf.priority = IntV(2)

\* C26 (as stated): whatever the number of accesses to its queries, a
\* CypherFile has read and parsed its file once, also when the file has no
\* statement.
C26_ParsedOnce ==
  (cf # NotBuilt /\ cf.error = "") => reads = 1

(***************************************************************************)
(* Properties of the parameter substitution (SpecSubst).  A placeholder is *)
(* a "$" with the whole run of letters and digits behind it.               *)
(***************************************************************************)

\* C30 (as stated): the result of _parse_query_params is the query with each
\* placeholder whose name is a key replaced by that key's value in double
\* quotes and everything else as it was, and it is the same for every order
\* in which the keys are taken.
C30_Substitution ==
  LET value(name) ==
        (CHOOSE i \in 1..Len(parsed_query.params) : parsed_query.params[i].k = name)
      names == {parsed_query.params[i].k : i \in 1..Len(parsed_query.params)}
      stop(st, i) == SetMin({e \in (i + 1)..(Len(st) + 1) :
                               e = Len(st) + 1 \/ st[e] \notin {"x", "y", "1", "Sue"}})
      RECURSIVE Substituted(_)
      Substituted(st) ==
        LET found == {i \in 1..Len(st) : st[i] = "$"}
            at(i, e) ==
              SubSeq(st, 1, i - 1)
                \o (IF SubSeq(st, i + 1, e - 1) \in names
                    THEN <<"\"">> \o parsed_query.params[value(SubSeq(st, i + 1, e - 1))].v
                           \o <<"\"">>
                    ELSE SubSeq(st, i, e - 1))
                \o Substituted(SubSeq(st, e, Len(st)))
        IN IF found = {} THEN st ELSE at(SetMin(found), stop(st, SetMin(found)))
      orders == {params \in [1..Len(parsed_query.params) ->
                               {parsed_query.params[i] : i \in 1..Len(parsed_query.params)}] :
                   \A i, j \in 1..Len(parsed_query.params) : params[i] = params[j] => i = j}
  IN parsed_query.called =>
       /\ parsed_query.query_string = Substituted(parsed_query.query)
       /\ \A params \in orders :
             _parse_query_params(parsed_query.query, params) = parsed_query.query_string

====
